---- MODULE Spec2Model ----
(***************************************************************************)
(* A model of the procedural civilization simulation of src/main.py:       *)
(* terrain and biome generation, civilization placement, and the tick of   *)
(* update_civilizations (growth, meteor spawn, meteor revert, border       *)
(* conflicts, proximity fights) driven by run_simulation.                   *)
(*                                                                         *)
(* Scale.  The program runs on a 256 x 128 grid with 8 civilizations of    *)
(* 1000 citizens for 1000 years; the model keeps the code's rules and      *)
(* runs them on a small grid for a few years.  Reals are fixed point:      *)
(* heights in hundredths (HeightUnit), rates in thousandths (RateUnit),    *)
(* populations in hundredths of a citizen (PopUnit), products rounded      *)
(* down.  Random draws are existential choices over the named draw sets.   *)
(***************************************************************************)
EXTENDS Integers, Sequences, FiniteSets

----------------------------------------------------------------------------
(* Units of the fixed-point representation. *)
HeightUnit == 100
RateUnit == 1000
PopUnit == 100

(* Program constants, src/main.py lines 9-27, at the model's scale. *)
WIDTH == 6
HEIGHT == 3
NUM_CIVILIZATIONS == 3
CIV_GROWTH_RATE_MIN == 30
CIV_GROWTH_RATE_MAX == 70
SLOW_GROWTH_THRESHOLD == 500
SLOW_GROWTH_RATE == 20
MAX_POPULATION == 1100
METEOR_REVERT_TIME == 2
FIGHT_DISTANCE == 2
FIGHT_DAMAGE == 100
CITIZENS_PER_DOT == 218

(* Literals of the code that have no name there. *)
LandThreshold == 30
InitialPopulation == 1000
MeteorPeriod == 2
MeteorPenalty == 500
MinRadius == 1
MaxRadius == 1
ShapeSize == 2
MaxYear == 5

Cells == (0 .. WIDTH - 1) \X (0 .. HEIGHT - 1)

Min(a, b) == IF a < b THEN a ELSE b
Max(a, b) == IF a > b THEN a ELSE b
Abs(a) == IF a < 0 THEN -a ELSE a

SetMin(S) == CHOOSE m \in S : \A n \in S : m <= n
SetMax(S) == CHOOSE m \in S : \A n \in S : m >= n

Range(s) == {s[i] : i \in 1 .. Len(s)}

----------------------------------------------------------------------------
(* Terrain: generate_heightmap and generate_biome_map. *)

(* pnoise2 with base=42 is a fixed deterministic field; the model's field
   is a fixed table of raw samples, one row per y, repeated beyond its
   size as pnoise2 repeats beyond repeatx, repeaty. *)
NoiseRows ==
    << << 40, 52, 61, 70, 48, 64 >>,
       << 45, 58, 66, 10, 22, 55 >>,
       << 20, 50, 90, 47,  5, 15 >> >>

pnoise2(x, y) == NoiseRows[(y % 3) + 1][(x % 6) + 1]

(* (heightmap - min) / (max - min), in hundredths. *)
Normalize(raw) ==
    LET lo == SetMin({raw[c] : c \in Cells})
        hi == SetMax({raw[c] : c \in Cells})
    IN  [c \in Cells |-> ((raw[c] - lo) * HeightUnit) \div (hi - lo)]

generate_heightmap == Normalize([c \in Cells |-> pnoise2(c[1], c[2])])

(* The ordered thresholds and the palette of generate_biome_map; the labels
   name the colours in palette order, Impact is the meteor's red. *)
thresholds == << 30, 35, 70, 50 >>
colors == << "Water", "Beach", "Desert", "Grassland", "Forest" >>
Impact == "Impact"

(* Faulty variant of ClassifyFrom: the loop without its break, the last threshold
   the height is below wins. *)
ClassifyLastMatch(h, i) ==
    LET below == {k \in i .. Len(thresholds) : h < thresholds[k]}
    IN  IF below = {} THEN colors[Len(colors)] ELSE colors[SetMax(below)]

(* for i, t in enumerate(thresholds): if h < t: colors[i]; break
   else: colors[-1] *)
RECURSIVE ClassifyFrom(_, _)
ClassifyFrom(h, i) ==
    IF i > Len(thresholds) THEN colors[Len(colors)]
    ELSE IF h < thresholds[i] THEN colors[i]
    ELSE ClassifyFrom(h, i + 1)

Classify(h) == ClassifyFrom(h, 1)

generate_biome_map(hm) == [c \in Cells |-> Classify(hm[c])]

----------------------------------------------------------------------------
(* Geometry: scipy.spatial.ConvexHull on integer points. *)

Cross(o, a, b) ==
    (a[1] - o[1]) * (b[2] - o[2]) - (a[2] - o[2]) * (b[1] - o[1])

(* Qhull raises QhullError when the input has no three points that span the
   plane (fewer than three distinct points, or all collinear). *)
HullDegenerate(S) == \A a \in S, b \in S, c \in S : Cross(a, b, c) = 0

Dot(o, a, b) ==
    (a[1] - o[1]) * (b[1] - o[1]) + (a[2] - o[2]) * (b[2] - o[2])

(* The line from p through q supports S at p: no point of S lies to its
   right, and the points of S on it lie on q's side of p. *)
Supports(S, p, q) ==
    \A r \in S : \/ Cross(p, q, r) > 0
                 \/ Cross(p, q, r) = 0 /\ Dot(p, q, r) >= 0

(* hull.vertices: the points of S that are corners of its convex hull, which
   are the points with a supporting line through another point of S.  The
   simulation reads a border only through membership tests, so the border
   is kept as the set of its vertices. *)
HullVertices(S) == {p \in S : \E q \in S \ {p} : Supports(S, p, q)}

ConvexHull(territory) == HullVertices(Range(territory))

(* abs(x1 - x2) <= 1 and abs(y1 - y2) <= 1 *)
Near(p, q) == Abs(p[1] - q[1]) <= 1 /\ Abs(p[2] - q[2]) <= 1

(* max(0, min(WIDTH - 1, x)), max(0, min(HEIGHT - 1, y)) *)
Clamp(x, y) == << Max(0, Min(WIDTH - 1, x)), Max(0, Min(HEIGHT - 1, y)) >>

----------------------------------------------------------------------------
VARIABLES
    heightmap,      \* cell -> height in hundredths, fixed after generation
    biome_map,      \* cell -> label, painted and restored by meteors
    civilizations,  \* the list of civilization records
    year,           \* the tick counter of run_simulation
    meteor_strike,  \* the tracked meteor event, or None
    pc,             \* the position in run_simulation / update_civilizations
    error,          \* the exception that ended the program, or "none"
    sample,         \* the coordinate last drawn by the placement loop
    events,         \* history: every meteor event spawned so far
    merges,         \* history: the merges of the last check_borders call
    flagged         \* history: <<a, b>>: a was flagged because of b

vars == << heightmap, biome_map, civilizations, year, meteor_strike, pc,
           error, sample, events, merges, flagged >>

None == [year |-> -1, center |-> << -1, -1 >>, radius |-> 0,
         affected_area |-> {}]

(* np.zeros((HEIGHT, WIDTH, 3)): the grid before classification. *)
Blank == "Blank"

(* The draws the model takes for the random calls of the code. *)
SampleSites == { << 0, 0 >>, << 2, 0 >>, << 4, 0 >>, << 5, 2 >> }
ShapeDraws ==
    { << << 0, 0 >>, << 1, 0 >>, << 0, 1 >>, << 0, 0 >> >>,
      << << 0, 0 >>, << 1, 0 >>, << 2, 0 >>, << -1, 0 >> >> }
GrowthRateDraws == { CIV_GROWTH_RATE_MAX }
JitterDraws == { << -1, -1 >>, << 0, 1 >> }
MeteorCenters == { << 1, 1 >> }

IsLand(c) == heightmap[c] >= LandThreshold

----------------------------------------------------------------------------
(* run_simulation, lines 208-212: terrain, then placement, year 0. *)

Init ==
    /\ heightmap = generate_heightmap
    /\ biome_map = [c \in Cells |-> Blank]
    /\ civilizations = << >>
    /\ year = 0
    /\ meteor_strike = None
    /\ pc = "terrain"
    /\ error = "none"
    /\ sample = << 0, 0 >>
    /\ events = {}
    /\ merges = << >>
    /\ flagged = {}

GenerateBiome ==
    /\ pc = "terrain"
    /\ biome_map' = generate_biome_map(heightmap)
    /\ pc' = "place"
    /\ UNCHANGED << heightmap, civilizations, year, meteor_strike, error,
                    sample, events, merges, flagged >>

(* generate_irregular_shape: size * 2 points, each the center moved by a
   draw in -size .. size on both axes and clamped to the grid. *)
generate_irregular_shape(center, draw) ==
    [k \in 1 .. ShapeSize * 2 |->
        Clamp(center[1] + draw[k][1], center[2] + draw[k][2])]

(* One pass of the `while True` loop of initialize_civilizations whose
   sample is below the land threshold: nothing is placed. *)
SampleWater ==
    /\ pc = "place"
    /\ \E s \in SampleSites \cap Cells :
          /\ ~ IsLand(s)
          /\ sample' = s
    /\ UNCHANGED << heightmap, biome_map, civilizations, year, meteor_strike,
                    pc, error, events, merges, flagged >>

NewCiv(i, s, territory, g) ==
    [id |-> i, center |-> s, population |-> InitialPopulation * PopUnit,
     territory |-> territory, border |-> ConvexHull(territory),
     border_color |-> "none", growth_rate |-> g]

(* One pass whose sample is land: the civilization is built and appended,
   unless ConvexHull raises on a flat shape. *)
PlaceCiv ==
    /\ pc = "place"
    /\ \E s \in SampleSites \cap Cells, d \in ShapeDraws, g \in GrowthRateDraws :
          /\ IsLand(s)
          /\ sample' = s
          /\ LET territory == generate_irregular_shape(s, d)
                 i == Len(civilizations) + 1
             IN  IF HullDegenerate(Range(territory))
                 THEN /\ error' = "QhullError"
                      /\ pc' = "crashed"
                      /\ UNCHANGED civilizations
                 ELSE /\ civilizations' =
                            Append(civilizations, NewCiv(i, s, territory, g))
                      /\ pc' = IF i = NUM_CIVILIZATIONS THEN "grow" ELSE "place"
                      /\ UNCHANGED error
    /\ UNCHANGED << heightmap, biome_map, year, meteor_strike, events,
                    merges, flagged >>

----------------------------------------------------------------------------
(* update_civilizations, lines 156-182: growth of every civilization. *)

(* Faulty variant of EffectiveRate: the civilization's own rate whatever its
   population. *)
OwnRate(civ) == civ.growth_rate

(* SLOW_GROWTH_RATE if population > SLOW_GROWTH_THRESHOLD else growth_rate *)
EffectiveRate(civ) ==
    IF civ.population > SLOW_GROWTH_THRESHOLD * PopUnit
    THEN SLOW_GROWTH_RATE
    ELSE civ.growth_rate

(* Faulty variant of GrownPopulation: the growth without the clamp of line 162. *)
GrownUncapped(civ) ==
    (civ.population * (RateUnit + EffectiveRate(civ))) \div RateUnit

(* population *= (1 + growth_rate); population = min(population, MAX) *)
GrownPopulation(civ) ==
    Min((civ.population * (RateUnit + EffectiveRate(civ))) \div RateUnit,
        MAX_POPULATION * PopUnit)

(* int(population // CITIZENS_PER_DOT - len(territory)), taken only when
   population > len(territory) * CITIZENS_PER_DOT *)
ExpansionCount(p, territory) ==
    IF p > Len(territory) * CITIZENS_PER_DOT * PopUnit
    THEN (p \div (CITIZENS_PER_DOT * PopUnit)) - Len(territory)
    ELSE 0

(* random.choice(territory) moved by one draw and clamped. *)
Candidates(territory) ==
    {Clamp(t[1] + j[1], t[2] + j[2]) : t \in Range(territory), j \in JitterDraws}

(* The outcomes of lines 158-179 for one civilization: one sequence of
   accepted new points for every sequence of candidate draws. *)
GrowCiv(civ) ==
    LET p == GrownPopulation(civ)
        n == ExpansionCount(p, civ.territory)
        expands == p > Len(civ.territory) * CITIZENS_PER_DOT * PopUnit
    IN  IF ~ expands
        THEN {[civ EXCEPT !.population = p]}
        ELSE {LET t == civ.territory \o SelectSeq(d, IsLand)
              IN  [civ EXCEPT !.population = p,
                              !.territory = t,
                              !.border = IF Len(t) >= 3 THEN ConvexHull(t)
                                         ELSE civ.border]
              : d \in [1 .. n -> Candidates(civ.territory)]}

RECURSIVE GrowAll(_)
GrowAll(k) ==
    IF k = 0 THEN { << >> }
    ELSE {Append(cs, c) : cs \in GrowAll(k - 1), c \in GrowCiv(civilizations[k])}

(* ConvexHull raises when a territory of three or more points is flat. *)
HullRaises(civ) ==
    Len(civ.territory) >= 3 /\ HullDegenerate(Range(civ.territory))

Grow ==
    /\ pc = "grow"
    /\ \E cs \in GrowAll(Len(civilizations)) :
          IF \E k \in 1 .. Len(cs) : HullRaises(cs[k])
          THEN /\ error' = "QhullError"
               /\ pc' = "crashed"
               /\ UNCHANGED civilizations
          ELSE /\ civilizations' = cs
               /\ pc' = "spawn"
               /\ UNCHANGED error
    /\ UNCHANGED << heightmap, biome_map, year, meteor_strike, sample,
                    events, merges, flagged >>

----------------------------------------------------------------------------
(* create_meteor_strike, lines 128-143, and the `or` of line 185. *)

(* range(max(0, cy - radius), min(HEIGHT, cy + radius)), the same on x,
   and (x - cx)**2 + (y - cy)**2 <= radius**2 *)
PaintedCells(center, radius) ==
    {c \in Cells :
        /\ center[1] - radius <= c[1] /\ c[1] < center[1] + radius
        /\ center[2] - radius <= c[2] /\ c[2] < center[2] + radius
        /\ (c[1] - center[1]) * (c[1] - center[1])
             + (c[2] - center[2]) * (c[2] - center[2]) <= radius * radius}

(* any(abs(x - tx) <= 1 and abs(y - ty) <= 1 for tx, ty in civ["border"]) *)
CellHits(c, civ) == \E b \in civ.border : Near(c, b)

(* population *= 0.5, once for every painted cell that hits the border. *)
RECURSIVE HalveTimes(_, _)
HalveTimes(p, k) ==
    IF k = 0 THEN p
    ELSE HalveTimes((p * MeteorPenalty) \div RateUnit, k - 1)

StruckPopulation(civ, cells) ==
    HalveTimes(civ.population, Cardinality({c \in cells : CellHits(c, civ)}))

NewStrike(center, radius) ==
    [year |-> year, center |-> center, radius |-> radius,
     affected_area |->
        {<< c[1], c[2], biome_map[c] >> : c \in PaintedCells(center, radius)}]

MeteorSpawn ==
    /\ pc = "spawn"
    /\ year % MeteorPeriod = 0
    /\ \E center \in MeteorCenters \cap Cells, radius \in MinRadius .. MaxRadius :
          \E cells \in {PaintedCells(center, radius)},
             strike \in {NewStrike(center, radius)} :
              /\ biome_map' = [c \in Cells |->
                                 IF c \in cells THEN Impact ELSE biome_map[c]]
              /\ civilizations' =
                    [k \in 1 .. Len(civilizations) |->
                        [civilizations[k] EXCEPT
                            !.population =
                                StruckPopulation(civilizations[k], cells)]]
              /\ meteor_strike' = strike
              /\ events' = events \cup {strike}
    /\ pc' = "revert"
    /\ UNCHANGED << heightmap, year, error, sample, merges, flagged >>

(* create_meteor_strike returns None: the tracked event stays. *)
MeteorSkip ==
    /\ pc = "spawn"
    /\ pc' = "revert"
    /\ UNCHANGED << heightmap, biome_map, civilizations, year, meteor_strike,
                    error, sample, events, merges, flagged >>

(* Faulty variant of Revert: the age test of line 147 is dropped, a tracked
   event is reverted as soon as the revert check sees it. *)
RevertAtOnce ==
    /\ pc = "revert"
    /\ IF meteor_strike # None
       THEN /\ biome_map' =
                  [c \in Cells |->
                      IF \E a \in meteor_strike.affected_area :
                            a[1] = c[1] /\ a[2] = c[2]
                      THEN (CHOOSE a \in meteor_strike.affected_area :
                                a[1] = c[1] /\ a[2] = c[2])[3]
                      ELSE biome_map[c]]
            /\ meteor_strike' = None
       ELSE UNCHANGED << biome_map, meteor_strike >>
    /\ pc' = "borders"
    /\ UNCHANGED << heightmap, civilizations, year, error, sample, events,
                    merges, flagged >>

(* revert_meteor_strike, lines 146-152. *)
Restored(area) ==
    [c \in Cells |->
        IF \E a \in area : a[1] = c[1] /\ a[2] = c[2]
        THEN (CHOOSE a \in area : a[1] = c[1] /\ a[2] = c[2])[3]
        ELSE biome_map[c]]

Revert ==
    /\ pc = "revert"
    /\ IF meteor_strike # None /\ year - meteor_strike.year >= METEOR_REVERT_TIME
       THEN /\ biome_map' = Restored(meteor_strike.affected_area)
            /\ meteor_strike' = None
       ELSE UNCHANGED << biome_map, meteor_strike >>
    /\ pc' = "borders"
    /\ UNCHANGED << heightmap, civilizations, year, error, sample, events,
                    merges, flagged >>

----------------------------------------------------------------------------
(* check_borders, lines 91-109. *)

Rolls == { "none", "first", "second" }

PairsOf(n) == {q \in (1 .. n) \X (1 .. n) : q[1] < q[2]}

(* any(abs(x1 - x2) <= 1 and abs(y1 - y2) <= 1
       for x1, y1 in civ1["border"] for x2, y2 in civ2["border"]) *)
Adjacent(civ1, civ2) == \E p \in civ1.border, q \in civ2.border : Near(p, q)

(* Faulty variant of ResolvePair: line 100 flags civ1 only. *)
ResolvePairOneSided(st, i, j, roll) ==
    LET red == [st.civs EXCEPT ![i].border_color = "red"]
        fl == st.flagged \cup {<< red[i].id, red[j].id >>}
        w == IF roll = "first" THEN i ELSE j
        l == IF roll = "first" THEN j ELSE i
        t == red[w].territory \o red[l].territory
    IN  IF roll = "none"
        THEN [st EXCEPT !.civs = red, !.flagged = fl]
        ELSE [civs |-> [red EXCEPT ![w].territory = t,
                                   ![w].border = ConvexHull(t)],
              to_remove |-> Append(st.to_remove, red[l].id),
              merges |-> Append(st.merges,
                                [winner |-> red[w].id, loser |-> red[l].id,
                                 land |-> red[l].territory]),
              flagged |-> fl]

(* Faulty variant of ResolvePair: the winner also takes the loser's
   population. *)
ResolvePairAbsorbing(st, i, j, roll) ==
    LET red == [st.civs EXCEPT ![i].border_color = "red",
                               ![j].border_color = "red"]
        fl == st.flagged \cup {<< red[i].id, red[j].id >>,
                               << red[j].id, red[i].id >>}
        w == IF roll = "first" THEN i ELSE j
        l == IF roll = "first" THEN j ELSE i
        t == red[w].territory \o red[l].territory
    IN  IF roll = "none"
        THEN [st EXCEPT !.civs = red, !.flagged = fl]
        ELSE [civs |-> [red EXCEPT ![w].territory = t,
                                   ![w].border = ConvexHull(t),
                                   ![w].population =
                                       red[w].population + red[l].population],
              to_remove |-> Append(st.to_remove, red[l].id),
              merges |-> Append(st.merges,
                                [winner |-> red[w].id, loser |-> red[l].id,
                                 land |-> red[l].territory]),
              flagged |-> fl]

(* Lines 100-107 for one adjacent pair: both are flagged; when the merge
   roll succeeds the winner takes the loser's territory, its hull is
   recomputed and the loser is queued for removal. *)
ResolvePair(st, i, j, roll) ==
    LET red == [st.civs EXCEPT ![i].border_color = "red",
                               ![j].border_color = "red"]
        fl == st.flagged \cup {<< red[i].id, red[j].id >>,
                               << red[j].id, red[i].id >>}
        w == IF roll = "first" THEN i ELSE j
        l == IF roll = "first" THEN j ELSE i
        t == red[w].territory \o red[l].territory
    IN  IF roll = "none"
        THEN [st EXCEPT !.civs = red, !.flagged = fl]
        ELSE [civs |-> [red EXCEPT ![w].territory = t,
                                   ![w].border = ConvexHull(t)],
              to_remove |-> Append(st.to_remove, red[l].id),
              merges |-> Append(st.merges,
                                [winner |-> red[w].id, loser |-> red[l].id,
                                 land |-> red[l].territory]),
              flagged |-> fl]

(* The double loop of lines 93-96 over i < j, in the order of the list. *)
RECURSIVE ScanPairs(_, _, _, _)
ScanPairs(st, i, j, rolls) ==
    IF i > Len(st.civs) THEN st
    ELSE IF j > Len(st.civs) THEN ScanPairs(st, i + 1, i + 2, rolls)
    ELSE IF Adjacent(st.civs[i], st.civs[j])
         THEN CHOOSE out \in
                  {ScanPairs(nx, i, j + 1, rolls) :
                      nx \in {ResolvePair(st, i, j, rolls[<< i, j >>])}} : TRUE
         ELSE ScanPairs(st, i, j + 1, rolls)

(* list.remove: drops the first element equal to the argument. *)
RemoveCiv(list, id) ==
    LET k == CHOOSE k \in 1 .. Len(list) :
                 /\ list[k].id = id
                 /\ \A m \in 1 .. k - 1 : list[m].id # id
    IN  SubSeq(list, 1, k - 1) \o SubSeq(list, k + 1, Len(list))

(* for civ in to_remove: civilizations.remove(civ); remove raises ValueError
   when the civilization is no longer in the list. *)
RECURSIVE RemoveAll(_, _, _)
RemoveAll(list, ids, k) ==
    IF k > Len(ids) THEN [list |-> list, raised |-> FALSE]
    ELSE IF \E m \in 1 .. Len(list) : list[m].id = ids[k]
         THEN CHOOSE out \in
                  {RemoveAll(nx, ids, k + 1) : nx \in {RemoveCiv(list, ids[k])}} :
                  TRUE
         ELSE [list |-> list, raised |-> TRUE]

CheckBorders ==
    /\ pc = "borders"
    /\ \E rolls \in [PairsOf(Len(civilizations)) -> Rolls] :
          \E scan \in {ScanPairs([civs |-> civilizations, to_remove |-> << >>,
                                  merges |-> << >>, flagged |-> {}],
                                 1, 2, rolls)} :
          \E rem \in {RemoveAll(scan.civs, scan.to_remove, 1)} :
              /\ civilizations' = rem.list
              /\ merges' = scan.merges
              /\ flagged' = scan.flagged
              /\ IF rem.raised
                 THEN error' = "ValueError" /\ pc' = "crashed"
                 ELSE pc' = "fight" /\ UNCHANGED error
    /\ UNCHANGED << heightmap, biome_map, year, meteor_strike, sample, events >>

----------------------------------------------------------------------------
(* check_proximity_and_fight, lines 112-125. *)

(* Faulty variant of InFightRange: distance <= FIGHT_DISTANCE. *)
InFightRangeInclusive(civ1, civ2) ==
    (civ1.center[1] - civ2.center[1]) * (civ1.center[1] - civ2.center[1])
      + (civ1.center[2] - civ2.center[2]) * (civ1.center[2] - civ2.center[2])
    <= FIGHT_DISTANCE * FIGHT_DISTANCE

(* np.sqrt((x1 - x2)**2 + (y1 - y2)**2) < FIGHT_DISTANCE, on the squares. *)
InFightRange(civ1, civ2) ==
    (civ1.center[1] - civ2.center[1]) * (civ1.center[1] - civ2.center[1])
      + (civ1.center[2] - civ2.center[2]) * (civ1.center[2] - civ2.center[2])
    < FIGHT_DISTANCE * FIGHT_DISTANCE

(* population *= (1 - FIGHT_DAMAGE) *)
Damaged(p) == (p * (RateUnit - FIGHT_DAMAGE)) \div RateUnit

FightPair(civs, i, j) ==
    [civs EXCEPT ![i].population = Damaged(civs[i].population),
                 ![j].population = Damaged(civs[j].population)]

RECURSIVE FightPairs(_, _, _)
FightPairs(civs, i, j) ==
    IF i > Len(civs) THEN civs
    ELSE IF j > Len(civs) THEN FightPairs(civs, i + 1, i + 2)
    ELSE IF InFightRange(civs[i], civs[j])
         THEN CHOOSE out \in
                  {FightPairs(nx, i, j + 1) : nx \in {FightPair(civs, i, j)}} : TRUE
         ELSE FightPairs(civs, i, j + 1)

Fight ==
    /\ pc = "fight"
    /\ civilizations' = FightPairs(civilizations, 1, 2)
    /\ pc' = "draw"
    /\ UNCHANGED << heightmap, biome_map, year, meteor_strike, error, sample,
                    events, merges, flagged >>

----------------------------------------------------------------------------
(* run_simulation, lines 214-217: the tick has been drawn, year += 1. *)
EndTick ==
    /\ pc = "draw"
    /\ year' = year + 1
    /\ pc' = IF year + 1 < MaxYear THEN "grow" ELSE "done"
    /\ UNCHANGED << heightmap, biome_map, civilizations, meteor_strike, error,
                    sample, events, merges, flagged >>

Next ==
    \/ GenerateBiome
    \/ SampleWater
    \/ PlaceCiv
    \/ Grow
    \/ MeteorSpawn
    \/ MeteorSkip
    \/ Revert
    \/ CheckBorders
    \/ Fight
    \/ EndTick

Spec == Init /\ [][Next]_vars

----------------------------------------------------------------------------
(* initialize_civilizations on its own, for any heightmap handed to it. *)

AllWater == [c \in Cells |-> 10]

(* The generated map seen from the other side of the grid. *)
Mirrored == [c \in Cells |-> generate_heightmap[<< WIDTH - 1 - c[1], c[2] >>]]

PlaceMaps == { generate_heightmap, Mirrored, AllWater }

PlaceInit ==
    /\ heightmap \in PlaceMaps
    /\ biome_map = generate_biome_map(heightmap)
    /\ civilizations = << >>
    /\ year = 0
    /\ meteor_strike = None
    /\ pc = "place"
    /\ error = "none"
    /\ sample = << 0, 0 >>
    /\ events = {}
    /\ merges = << >>
    /\ flagged = {}

PlaceNext == SampleWater \/ PlaceCiv

(* The loop keeps drawing, and random.randint draws every cell again and
   again: a land cell, when the map has one, is drawn at some point. *)
PlaceSpec ==
    PlaceInit /\ [][PlaceNext]_vars /\ WF_vars(SampleWater) /\ SF_vars(PlaceCiv)

(* generate_biome_map on its own, for heightmaps covering every height. *)

ProbeMaps ==
    {[c \in Cells |-> (h + 7 * c[1] + 13 * c[2]) % (HeightUnit + 1)] :
        h \in 0 .. HeightUnit}

TerrainInit ==
    /\ heightmap \in ProbeMaps
    /\ biome_map = [c \in Cells |-> Blank]
    /\ civilizations = << >>
    /\ year = 0
    /\ meteor_strike = None
    /\ pc = "terrain"
    /\ error = "none"
    /\ sample = << 0, 0 >>
    /\ events = {}
    /\ merges = << >>
    /\ flagged = {}

TerrainNext == GenerateBiome

TerrainSpec == TerrainInit /\ [][TerrainNext]_vars

----------------------------------------------------------------------------
(* Properties. *)

CellOf(a) == << a[1], a[2] >>

EndOfTick == pc = "draw"

(* C1: every cell painted by an event spawned at year Y carries the impact
   label at the end of ticks Y .. Y + METEOR_REVERT_TIME - 1 and its
   pre-impact label at the end of tick Y + METEOR_REVERT_TIME. *)
C1_RevertAfterDelay ==
    EndOfTick =>
        \A e \in events :
            /\ (e.year <= year /\ year < e.year + METEOR_REVERT_TIME) =>
                  \A a \in e.affected_area : biome_map[CellOf(a)] = Impact
            /\ year = e.year + METEOR_REVERT_TIME =>
                  \A a \in e.affected_area : biome_map[CellOf(a)] = a[3]

(* C2: every active civilization's population lies in 0 .. MAX_POPULATION. *)
C2_PopulationBounds ==
    \A k \in 1 .. Len(civilizations) :
        /\ 0 <= civilizations[k].population
        /\ civilizations[k].population <= MAX_POPULATION * PopUnit

C2_Witness ==
    /\ EndOfTick
    /\ \E k \in 1 .. Len(civilizations) :
          civilizations[k].population = MAX_POPULATION * PopUnit
    /\ \E k \in 1 .. Len(civilizations) :
          civilizations[k].population < InitialPopulation * PopUnit

Active(id) == \E k \in 1 .. Len(civilizations) : civilizations[k].id = id

(* C3: at the end of a tick, the loser of every merge of that tick is out
   of the active list and every point of its territory is in the territory
   of an active civilization. *)
C3_LoserLandKept ==
    EndOfTick =>
        \A m \in 1 .. Len(merges) :
            /\ ~ Active(merges[m].loser)
            /\ \A pt \in Range(merges[m].land) :
                  \E k \in 1 .. Len(civilizations) :
                      pt \in Range(civilizations[k].territory)

(* C4: check_borders removes every loser without raising, also one that
   lost against two neighbours. *)
C4_RemovalNeverRaises ==
    /\ error # "ValueError"
    /\ pc \in {"fight", "draw"} =>
          \A m \in 1 .. Len(merges) : ~ Active(merges[m].loser)

(* C8: every territory coordinate of every active civilization is in the
   grid and on land. *)
C8_TerritoryOnLand ==
    \A k \in 1 .. Len(civilizations) :
        \A pt \in Range(civilizations[k].territory) :
            pt \in Cells /\ heightmap[pt] >= LandThreshold

(* C9: placement terminates, with every civilization placed or with a
   failure, on every heightmap. *)
C9_PlacementTerminates == <>(pc # "place")

(* The civilization is hit by the strike: a painted cell lies next to one
   of its border vertices. *)
HitBy(civ, strike) == \E a \in strike.affected_area : CellHits(CellOf(a), civ)

(* C5: the spawn step halves the population of every civilization hit by
   the new event exactly once and leaves every other population alone; a
   spawn check that spawns nothing changes no population. *)
C5_PenaltyOnce ==
    [][pc = "spawn" =>
          /\ Len(civilizations') = Len(civilizations)
          /\ \A k \in 1 .. Len(civilizations) :
                civilizations'[k].population =
                    IF events' # events /\ HitBy(civilizations[k], meteor_strike')
                    THEN (civilizations[k].population * MeteorPenalty) \div RateUnit
                    ELSE civilizations[k].population]_vars

RECURSIVE DamagedTimes(_, _)
DamagedTimes(p, n) ==
    IF n = 0 THEN p
    ELSE DamagedTimes((p * (RateUnit - FIGHT_DAMAGE)) \div RateUnit, n - 1)

SquaredDistance(a, b) ==
    (a[1] - b[1]) * (a[1] - b[1]) + (a[2] - b[2]) * (a[2] - b[2])

(* The civilizations of the list, other than the k-th, whose center is
   strictly closer than FIGHT_DISTANCE to the k-th's center. *)
Opponents(k) ==
    {m \in 1 .. Len(civilizations) :
        /\ m # k
        /\ SquaredDistance(civilizations[k].center, civilizations[m].center)
             < FIGHT_DISTANCE * FIGHT_DISTANCE}

(* C6: check_proximity_and_fight multiplies a population by
   (1 - FIGHT_DAMAGE) once for every pair the civilization forms with a
   center strictly closer than FIGHT_DISTANCE, and not for any other pair. *)
C6_FightPerPair ==
    [][pc = "fight" =>
          /\ Len(civilizations') = Len(civilizations)
          /\ \A k \in 1 .. Len(civilizations) :
                civilizations'[k].population =
                    DamagedTimes(civilizations[k].population,
                                 Cardinality(Opponents(k)))]_vars

C6_Witness ==
    /\ EndOfTick
    /\ \E k \in 1 .. Len(civilizations) : Opponents(k) # {}
    /\ \E k \in 1 .. Len(civilizations), m \in 1 .. Len(civilizations) :
          SquaredDistance(civilizations[k].center, civilizations[m].center)
            = FIGHT_DISTANCE * FIGHT_DISTANCE

(* C7: whenever check_borders flags a because of b it flags b because of
   a, and both carry the red flag. *)
C7_FlagSymmetric ==
    \A f \in flagged :
        /\ << f[2], f[1] >> \in flagged
        /\ \A k \in 1 .. Len(civilizations) :
              civilizations[k].id \in {f[1], f[2]} =>
                  civilizations[k].border_color = "red"

C7_Witness ==
    /\ pc = "fight"
    /\ \E f \in flagged : Active(f[1]) /\ Active(f[2])

(* The first threshold, in list order, that the height is below. *)
FirstMatch(h) ==
    LET below == {i \in 1 .. Len(thresholds) : h < thresholds[i]}
    IN  IF below = {} THEN colors[Len(colors)] ELSE colors[SetMin(below)]

(* C10: every cell gets the label of the first threshold its height is
   below, or the fallback label; below 0.3 that is Water, and from 0.3 to
   below 0.35 it is Beach. *)
C10_FirstMatchWins ==
    pc # "terrain" =>
        \A c \in Cells :
            /\ biome_map[c] = FirstMatch(heightmap[c])
            /\ heightmap[c] < 30 => biome_map[c] = "Water"
            /\ (30 <= heightmap[c] /\ heightmap[c] < 35) => biome_map[c] = "Beach"

C10_Witness ==
    /\ pc = "place"
    /\ \E c \in Cells : heightmap[c] = 32 /\ biome_map[c] = "Beach"
    /\ \E c \in Cells : heightmap[c] = 40 /\ biome_map[c] = "Desert"
    /\ \E c \in Cells : heightmap[c] = 100 /\ biome_map[c] = "Forest"

(* The phase that follows each phase of a tick. *)
PhaseAfter(p) ==
    CASE p = "grow" -> {"spawn", "crashed"}
      [] p = "spawn" -> {"revert"}
      [] p = "revert" -> {"borders"}
      [] p = "borders" -> {"fight", "crashed"}
      [] p = "fight" -> {"draw"}
      [] p = "draw" -> {"grow", "done"}
      [] OTHER -> {"terrain", "place", "grow", "crashed", "done"}

(* C11: a tick runs growth, spawn check, revert check, check_borders,
   check_proximity_and_fight and then the year increment, in that order;
   populations grow only in the growth phase, events spawn only in the
   spawn phase, the year moves only after the fight phase; and an event
   spawned in a tick is still the tracked event at the end of that tick. *)
C11_PhaseOrder ==
    [][/\ pc' \in PhaseAfter(pc)
       /\ year' # year => (pc = "draw" /\ year' = year + 1)
       /\ events' # events => pc = "spawn"
       /\ (meteor_strike' = None /\ meteor_strike # None) => pc = "revert"
       /\ (pc \in {"spawn", "revert", "borders", "fight", "draw"}
             /\ Len(civilizations') = Len(civilizations)) =>
              \A k \in 1 .. Len(civilizations) :
                  civilizations'[k].population <= civilizations[k].population
       /\ pc' = "draw" =>
              \A e \in events' : e.year = year' => meteor_strike' = e]_vars

C11_Witness ==
    /\ EndOfTick
    /\ year > 0
    /\ meteor_strike # None
    /\ meteor_strike.year = year

(* The k-th civilization of the list touches the border of another one. *)
TouchesAnother(k) ==
    \E m \in 1 .. Len(civilizations) :
        m # k /\ Adjacent(civilizations[k], civilizations[m])

(* C12: at the end of every tick a civilization carries the red flag if
   and only if its border is within Chebyshev distance 1 of the border of
   another active civilization. *)
C12_FlagIffAdjacent ==
    EndOfTick =>
        \A k \in 1 .. Len(civilizations) :
            (civilizations[k].border_color = "red") <=> TouchesAnother(k)

(* The identifiers of the pairs of the list whose borders touch. *)
TouchingPairs(civs) ==
    {<< civs[i].id, civs[j].id >> :
        << i, j >> \in {q \in (1 .. Len(civs)) \X (1 .. Len(civs)) :
                           q[1] # q[2] /\ Adjacent(civs[q[1]], civs[q[2]])}}

TerritoryAtStart(id) ==
    (CHOOSE civ \in Range(civilizations) : civ.id = id).territory

(* C13: one check_borders call tests every pair against the borders of the
   start of the scan (the pairs found adjacent are the pairs adjacent at
   the start, and a merge hands over the loser's territory of the start),
   and no civilization that already lost in the scan wins a later pair. *)
C13_FrozenView ==
    [][pc = "borders" =>
          /\ flagged' = TouchingPairs(civilizations)
          /\ \A m \in 1 .. Len(merges') :
                merges'[m].land = TerritoryAtStart(merges'[m].loser)
          /\ \A m1 \in 1 .. Len(merges'), m2 \in 1 .. Len(merges') :
                m1 < m2 => merges'[m2].winner # merges'[m1].loser]_vars

(* C14: whenever no event is tracked at the end of a tick, every cell of
   the grid carries the label generate_biome_map gave it. *)
C14_CleanWhenUntracked ==
    (EndOfTick /\ meteor_strike = None) =>
        biome_map = generate_biome_map(heightmap)

(* The in-grid cells of the closed disc around the center. *)
Disc(center, radius) ==
    {c \in Cells :
        (c[1] - center[1]) * (c[1] - center[1])
          + (c[2] - center[2]) * (c[2] - center[2]) <= radius * radius}

(* C15: a spawn with center (cx, cy) and radius r gives the impact label to
   exactly the in-grid cells with (x-cx)^2 + (y-cy)^2 <= r^2, records for
   each of them the label it had just before, and changes no other cell. *)
C15_PaintsDisc ==
    [][(pc = "spawn" /\ meteor_strike' # meteor_strike) =>
          LET disc == Disc(meteor_strike'.center, meteor_strike'.radius)
          IN  /\ biome_map' = [c \in Cells |->
                                 IF c \in disc THEN Impact ELSE biome_map[c]]
              /\ meteor_strike'.affected_area =
                     {<< c[1], c[2], biome_map[c] >> : c \in disc}]_vars

(* p * (1 + r) cut at MAX_POPULATION, r chosen by the population p. *)
Compounded(p, own) ==
    LET r == IF p > SLOW_GROWTH_THRESHOLD * PopUnit THEN SLOW_GROWTH_RATE ELSE own
        grown == (p * (RateUnit + r)) \div RateUnit
    IN  IF grown < MAX_POPULATION * PopUnit THEN grown ELSE MAX_POPULATION * PopUnit

(* C16: the growth phase turns every population p into
   min(MAX_POPULATION, p * (1 + r)), r being SLOW_GROWTH_RATE when
   p > SLOW_GROWTH_THRESHOLD and the civilization's growth_rate otherwise,
   and no population decreases in it. *)
C16_GrowthFormula ==
    [][(pc = "grow" /\ pc' = "spawn") =>
          /\ Len(civilizations') = Len(civilizations)
          /\ \A k \in 1 .. Len(civilizations) :
                /\ civilizations'[k].population =
                       Compounded(civilizations[k].population,
                                  civilizations[k].growth_rate)
                /\ civilizations'[k].population >=
                       civilizations[k].population]_vars

C16_Witness ==
    /\ pc = "spawn"
    /\ year > 0
    /\ \E k \in 1 .. Len(civilizations) :
          civilizations[k].population <= SLOW_GROWTH_THRESHOLD * PopUnit
    /\ \E k \in 1 .. Len(civilizations) :
          /\ civilizations[k].population > InitialPopulation * PopUnit
          /\ civilizations[k].population < MAX_POPULATION * PopUnit

(* floor(population / CITIZENS_PER_DOT) *)
TargetSize(p) == p \div (CITIZENS_PER_DOT * PopUnit)

(* C17: after the growth phase, a civilization whose territory was below
   floor(population / CITIZENS_PER_DOT) points holds at least that many. *)
C17_ExpansionReachesTarget ==
    [][(pc = "grow" /\ pc' = "spawn") =>
          \A k \in 1 .. Len(civilizations) :
              Len(civilizations[k].territory)
                  < TargetSize(civilizations'[k].population) =>
                Len(civilizations'[k].territory)
                  >= TargetSize(civilizations'[k].population)]_vars

Winners(ms) == {ms[m].winner : m \in 1 .. Len(ms)}

(* C18: no civilization's center or growth_rate changes after creation;
   check_borders only takes civilizations out of the list, leaves every
   remaining population as it was, and changes the territory and border of
   merge winners only. *)
C18_MergeFrame ==
    [][\A k \in 1 .. Len(civilizations') :
          /\ pc = "borders" =>
                \E m \in 1 .. Len(civilizations) :
                    civilizations[m].id = civilizations'[k].id
          /\ \A m \in 1 .. Len(civilizations) :
                civilizations[m].id = civilizations'[k].id =>
                  /\ civilizations'[k].center = civilizations[m].center
                  /\ civilizations'[k].growth_rate = civilizations[m].growth_rate
                  /\ pc = "borders" =>
                        /\ civilizations'[k].population =
                               civilizations[m].population
                        /\ civilizations[m].id \notin Winners(merges') =>
                              /\ civilizations'[k].territory =
                                     civilizations[m].territory
                              /\ civilizations'[k].border =
                                     civilizations[m].border]_vars

C18_Witness ==
    /\ pc = "fight"
    /\ Len(civilizations) = 2
    /\ Len(merges) = 1
    /\ \E k \in 1 .. Len(civilizations) :
          /\ civilizations[k].id = merges[1].winner
          /\ Len(civilizations[k].territory) > ShapeSize * 2

(* C19: once civilizations are placed, the active list is never empty:
   check_borders never removes every civilization. *)
C19_SomeoneSurvives ==
    pc \in {"grow", "spawn", "revert", "borders", "fight", "draw", "done"} =>
        Len(civilizations) >= 1

(* C20: every label of the palette is the classification of some height
   of [0, 1]. *)
C20_EveryLabelReachable ==
    pc = "place" =>
        \A i \in 1 .. Len(colors) :
            \E h \in 0 .. HeightUnit : Classify(h) = colors[i]

====
